---- MODULE Spec2Model ----
(***************************************************************************)
(* Model of config_loader.py: load_config reads a JSON file, optionally    *)
(* overrides its values from the process environment, and validates the    *)
(* merged mapping against ConfigSchema.                                     *)
(*                                                                         *)
(* Python strings are sequences of one-character strings, so that          *)
(* str.upper, str.lower and str() are computed rather than assumed.        *)
(* JSON / Python values are tagged records (see JStr, JBool, JInt, JNull). *)
(* The file is taken from the input domain the loader is written for: a    *)
(* missing path, a file that is not JSON, or a JSON object of scalars.     *)
(***************************************************************************)
EXTENDS Integers, Sequences, FiniteSets, TLC

VARIABLES
    file,          \* what is at file_path: [kind, obj]
    environ,       \* os.environ: variable name -> string
    env_override,  \* the env_override argument
    pydantic,      \* major version of the installed pydantic (1 or 2)
    pc,            \* position inside load_config
    config,        \* load_config's local `config`: [none, map]
    log,           \* the stage markers logged by the current call, in order
    e,             \* the ValidationError caught at line 47 (its error list)
    raised,        \* the exception load_config raised to its caller
    result,        \* the ConfigSchema instance load_config returned (its fields)
    calls,         \* number of load_config calls already completed
    prev           \* outcome of the previous completed call

vars == <<file, environ, env_override, pydantic, pc, config, log, e, raised,
          result, calls, prev>>

\* ------------------------------------------------------------------ bounds
MaxExtraKeys == 1   \* keys of the file besides the four schema fields
MaxEnvVars == 2     \* environment variables that are set
MaxCalls == 2       \* consecutive load_config calls of one process

\* ----------------------------------------------------------------- strings
LowerLetters == <<"a","b","c","d","e","f","g","h","i","j","k","l","m",
                  "n","o","p","q","r","s","t","u","v","w","x","y","z">>
UpperLetters == <<"A","B","C","D","E","F","G","H","I","J","K","L","M",
                  "N","O","P","Q","R","S","T","U","V","W","X","Y","Z">>

IndexIn(c, letters) ==
    IF \E i \in DOMAIN letters : letters[i] = c
    THEN CHOOSE i \in DOMAIN letters : letters[i] = c
    ELSE 0

\* str.upper(): letters a-z go to A-Z, everything else is kept.
upper(s) ==
    [i \in DOMAIN s |->
        IF IndexIn(s[i], LowerLetters) # 0
        THEN UpperLetters[IndexIn(s[i], LowerLetters)] ELSE s[i]]

\* str.lower(), used by pydantic's bool parsing.
lower(s) ==
    [i \in DOMAIN s |->
        IF IndexIn(s[i], UpperLetters) # 0
        THEN LowerLetters[IndexIn(s[i], UpperLetters)] ELSE s[i]]

Digits == <<"0","1","2","3","4","5","6","7","8","9">>

RECURSIVE NatStr(_)
NatStr(n) == IF n < 10 THEN <<Digits[n + 1]>>
             ELSE NatStr(n \div 10) \o <<Digits[(n % 10) + 1]>>

\* ------------------------------------------------------------------ values
JStr(s)  == [t |-> "str",  s |-> s,    b |-> FALSE, n |-> 0]
JBool(b) == [t |-> "bool", s |-> <<>>, b |-> b,     n |-> 0]
JInt(n)  == [t |-> "int",  s |-> <<>>, b |-> FALSE, n |-> n]
JNull    == [t |-> "null", s |-> <<>>, b |-> FALSE, n |-> 0]

\* Python's str(v) for the scalars json.load produces.
PyStr(v) ==
    CASE v.t = "str"  -> v.s
      [] v.t = "bool" -> IF v.b THEN <<"T","r","u","e">> ELSE <<"F","a","l","s","e">>
      [] v.t = "int"  -> IF v.n < 0 THEN <<"-">> \o NatStr(0 - v.n) ELSE NatStr(v.n)
      [] OTHER        -> <<"N","o","n","e">>

EmptyMap == [k \in {} |-> JNull]

\* --------------------------------------------------------------- the schema
app_name    == <<"a","p","p","_","n","a","m","e">>
environment == <<"e","n","v","i","r","o","n","m","e","n","t">>
debug       == <<"d","e","b","u","g">>
db_url      == <<"d","b","_","u","r","l">>

StrFields == {app_name, environment, db_url}
BoolFields == {debug}
ConfigSchemaFields == StrFields \cup BoolFields

\* pydantic's string encodings of booleans (compared after lower()).
BOOL_TRUE  == {<<"1">>, <<"o","n">>, <<"t">>, <<"t","r","u","e">>, <<"y">>, <<"y","e","s">>}
BOOL_FALSE == {<<"0">>, <<"o","f","f">>, <<"f">>, <<"f","a","l","s","e">>, <<"n">>, <<"n","o">>}

NoValue == [ok |-> FALSE, v |-> JNull]

\* Validation of a `str` field. pydantic 1 converts numbers (bool included,
\* being an int) with str(); pydantic 2 accepts only strings.
StrField(v, ver) ==
    CASE v.t = "str" -> [ok |-> TRUE, v |-> v]
      [] v.t \in {"int", "bool"} /\ ver = 1 -> [ok |-> TRUE, v |-> JStr(PyStr(v))]
      [] OTHER -> NoValue

\* Faulty variant: a string is taken for the bool field as it stands.
BoolField_unparsed(v, ver) ==
    CASE v.t \in {"bool", "str"} -> [ok |-> TRUE, v |-> v]
      [] v.t = "int" /\ v.n \in {0, 1} -> [ok |-> TRUE, v |-> JBool(v.n = 1)]
      [] OTHER -> [ok |-> FALSE, v |-> JNull]

\* Validation of a `bool` field: booleans, 0/1, and the listed strings.
BoolField(v, ver) ==
    CASE v.t = "bool" -> [ok |-> TRUE, v |-> v]
      [] v.t = "int" /\ v.n \in {0, 1} -> [ok |-> TRUE, v |-> JBool(v.n = 1)]
      [] v.t = "str" /\ lower(v.s) \in BOOL_TRUE  -> [ok |-> TRUE, v |-> JBool(TRUE)]
      [] v.t = "str" /\ lower(v.s) \in BOOL_FALSE -> [ok |-> TRUE, v |-> JBool(FALSE)]
      [] OTHER -> NoValue

Field(k, v, ver) == IF k \in BoolFields THEN BoolField(v, ver) ELSE StrField(v, ver)

\* Faulty variant: `debug: bool = False`, a missing debug is not an error.
ConfigSchema_debug_default(cfg, ver) ==
    LET missing == {k \in ConfigSchemaFields \ {debug} : k \notin DOMAIN cfg}
        bad == {k \in ConfigSchemaFields \cap DOMAIN cfg : ~Field(k, cfg[k], ver).ok}
        errors == {[loc |-> k, type |-> "missing"] : k \in missing}
                  \cup {[loc |-> k, type |-> "type"] : k \in bad}
    IN [errors |-> errors,
        model |-> IF errors = {}
                  THEN [k \in ConfigSchemaFields |->
                           IF k \in DOMAIN cfg THEN Field(k, cfg[k], ver).v ELSE JBool(FALSE)]
                  ELSE EmptyMap]

\* Faulty variant: extra = "forbid", a key outside the schema is an error.
ConfigSchema_forbid_extra(cfg, ver) ==
    LET missing == {k \in ConfigSchemaFields : k \notin DOMAIN cfg}
        bad == {k \in ConfigSchemaFields \cap DOMAIN cfg : ~Field(k, cfg[k], ver).ok}
        errors == {[loc |-> k, type |-> "missing"] : k \in missing}
                  \cup {[loc |-> k, type |-> "type"] : k \in bad}
                  \cup {[loc |-> k, type |-> "extra"] : k \in DOMAIN cfg \ ConfigSchemaFields}
    IN [errors |-> errors,
        model |-> IF errors = {} THEN [k \in ConfigSchemaFields |-> Field(k, cfg[k], ver).v]
                  ELSE EmptyMap]

\* ConfigSchema(**cfg): every schema field must be present and of its type;
\* keys that are not schema fields are ignored (pydantic's default).
\* errors: one entry per offending field; model: the validated fields.
ConfigSchema(cfg, ver) ==
    LET missing == {k \in ConfigSchemaFields : k \notin DOMAIN cfg}
        bad == {k \in ConfigSchemaFields \cap DOMAIN cfg : ~Field(k, cfg[k], ver).ok}
        errors == {[loc |-> k, type |-> "missing"] : k \in missing}
                  \cup {[loc |-> k, type |-> "type"] : k \in bad}
    IN [errors |-> errors,
        model |-> IF errors = {} THEN [k \in ConfigSchemaFields |-> Field(k, cfg[k], ver).v]
                  ELSE EmptyMap]

\* -------------------------------------------------------------- exceptions
NoExc == [cls |-> "", msg |-> "", errors |-> {}]
FileNotFoundError == [cls |-> "FileNotFoundError", msg |-> "No such file or directory", errors |-> {}]
JSONDecodeError == [cls |-> "JSONDecodeError", msg |-> "Expecting property name enclosed in double quotes", errors |-> {}]
ConfigIsNone == [cls |-> "ValueError", msg |-> "Config is None. Please check the file content.", errors |-> {}]
InvalidConfiguration == [cls |-> "ValueError", msg |-> "Invalid configuration data", errors |-> {}]

\* ------------------------------------------------------------- file loading
None == [none |-> TRUE, map |-> EmptyMap]
Dict(m) == [none |-> FALSE, map |-> m]

\* Faulty variant: no emptiness check, the empty object is returned as it is.
load_config_from_file_noempty(f) ==
    CASE f.kind = "missing"   -> [raised |-> FileNotFoundError, config |-> None]
      [] f.kind = "malformed" -> [raised |-> JSONDecodeError, config |-> None]
      [] OTHER -> [raised |-> NoExc, config |-> Dict(f.obj)]

\* Faulty variant: the FileNotFoundError handler returns None instead of
\* raising again.
load_config_from_file_swallow(f) ==
    CASE f.kind = "missing"   -> [raised |-> NoExc, config |-> None]
      [] f.kind = "malformed" -> [raised |-> JSONDecodeError, config |-> None]
      [] OTHER -> IF DOMAIN f.obj = {}
                  THEN [raised |-> NoExc, config |-> None]
                  ELSE [raised |-> NoExc, config |-> Dict(f.obj)]

\* _load_config_from_file: raises for a missing or malformed file, returns
\* None for an empty object, the parsed mapping otherwise.
load_config_from_file(f) ==
    CASE f.kind = "missing"   -> [raised |-> FileNotFoundError, config |-> None]
      [] f.kind = "malformed" -> [raised |-> JSONDecodeError, config |-> None]
      [] OTHER -> IF DOMAIN f.obj = {}
                  THEN [raised |-> NoExc, config |-> None]
                  ELSE [raised |-> NoExc, config |-> Dict(f.obj)]

\* ------------------------------------------------------ environment overrides
\* os.getenv(name): the variable's value, or None when it is not set.
getenv(env, name) == IF name \in DOMAIN env THEN JStr(env[name]) ELSE JNull

\* Faulty variant: `if env_value:`, an empty value does not override.
apply_environment_overrides_truthy(cfg, env) ==
    [key \in DOMAIN cfg |->
        IF getenv(env, upper(key)) # JNull /\ getenv(env, upper(key)).s # <<>>
        THEN getenv(env, upper(key)) ELSE cfg[key]]

\* Faulty variant: os.getenv(key), the name is not upper-cased.
apply_environment_overrides_nocase(cfg, env) ==
    [key \in DOMAIN cfg |->
        IF getenv(env, key) # JNull THEN getenv(env, key) ELSE cfg[key]]

\* Faulty variant: config.update(os.environ) after the loop, every variable
\* becomes a key.
apply_environment_overrides_inject(cfg, env) ==
    [key \in DOMAIN cfg \cup DOMAIN env |->
        IF key \in DOMAIN env THEN JStr(env[key])
        ELSE IF getenv(env, upper(key)) # JNull THEN getenv(env, upper(key)) ELSE cfg[key]]

\* _apply_environment_overrides: each key whose upper-cased name is a set
\* environment variable takes that variable's string value.
apply_environment_overrides(cfg, env) ==
    [key \in DOMAIN cfg |->
        IF getenv(env, upper(key)) # JNull THEN getenv(env, upper(key)) ELSE cfg[key]]

\* ---------------------------------------------------------------- load_config
\* The outcome of one whole call: the exception raised, or the fields returned.
load_config(f, env, override, ver) ==
    LET loaded == load_config_from_file(f)
        merged == IF override THEN apply_environment_overrides(loaded.config.map, env)
                  ELSE loaded.config.map
        checked == ConfigSchema(merged, ver)
    IN  IF loaded.raised # NoExc THEN [raised |-> loaded.raised, result |-> EmptyMap]
        ELSE IF loaded.config.none THEN [raised |-> ConfigIsNone, result |-> EmptyMap]
        ELSE IF checked.errors # {} THEN [raised |-> InvalidConfiguration, result |-> EmptyMap]
        ELSE [raised |-> NoExc, result |-> checked.model]

Outcome == [raised |-> raised, result |-> result]
NoOutcome == [raised |-> NoExc, result |-> EmptyMap]

\* ------------------------------------------------------------------- inputs
Absent == [t |-> "absent", s |-> <<>>, b |-> FALSE, n |-> 0]

port   == <<"p","o","r","t">>
Debug_ == <<"D","e","b","u","g">>
ExtraKeys == {port, Debug_}

FileValues(k) ==
    CASE k = app_name    -> {Absent, JStr(<<"b","a","r">>), JInt(5)}
      [] k = environment -> {Absent, JStr(<<"p","r","o","d">>)}
      [] k = debug       -> {Absent, JBool(FALSE), JBool(TRUE), JStr(<<"Y","e","s">>), JInt(2)}
      [] k = db_url      -> {Absent, JStr(<<"d","b">>), JNull}
      [] k = port        -> {JInt(80)}
      [] OTHER           -> {JBool(TRUE)}

MkObject(a, en, d, u, extra) ==
    LET req == [k \in ConfigSchemaFields |->
                    CASE k = app_name -> a [] k = environment -> en
                      [] k = debug -> d [] OTHER -> u]
        keys == {k \in ConfigSchemaFields : req[k] # Absent} \cup extra
    IN [k \in keys |-> IF k \in extra THEN CHOOSE v \in FileValues(k) : TRUE ELSE req[k]]

Objects ==
    {MkObject(a, en, d, u, extra) :
        a \in FileValues(app_name), en \in FileValues(environment),
        d \in FileValues(debug), u \in FileValues(db_url),
        extra \in {x \in SUBSET ExtraKeys : Cardinality(x) <= MaxExtraKeys}}

Files == {[kind |-> "missing", obj |-> EmptyMap], [kind |-> "malformed", obj |-> EmptyMap]}
         \cup {[kind |-> "object", obj |-> o] : o \in Objects}

APP_NAME   == <<"A","P","P","_","N","A","M","E">>
DEBUG      == <<"D","E","B","U","G">>
PORT       == <<"P","O","R","T">>

EnvSettings ==
    {[name |-> APP_NAME, value |-> <<"f","o","o">>],
     [name |-> APP_NAME, value |-> <<>>],
     [name |-> DEBUG, value |-> <<"T","r","u","e">>],
     [name |-> DEBUG, value |-> <<"m","a","y","b","e">>],
     [name |-> PORT, value |-> <<"8","1">>],
     [name |-> debug, value |-> <<"t","r","u","e">>]}

Environments ==
    LET chosen == {s \in SUBSET EnvSettings :
                      /\ Cardinality(s) <= MaxEnvVars
                      /\ \A x, y \in s : x.name = y.name => x = y}
    IN {[name \in {x.name : x \in s} |-> (CHOOSE x \in s : x.name = name).value] : s \in chosen}

\* ------------------------------------------------------------------ machine
Init ==
    /\ file \in Files
    /\ environ \in Environments
    /\ env_override \in BOOLEAN
    /\ pydantic \in {1, 2}
    /\ pc = "call"
    /\ config = None
    /\ log = <<>>
    /\ e = {}
    /\ raised = NoExc
    /\ result = EmptyMap
    /\ calls = 0
    /\ prev = NoOutcome

\* lines 32-34: the call starts and loads the file.
LoadConfigFromFile ==
    /\ pc = "call"
    /\ log' = Append(log, "load")
    /\ LET loaded == load_config_from_file(file) IN
         /\ config' = loaded.config
         /\ raised' = loaded.raised
         /\ pc' = IF loaded.raised # NoExc THEN "done" ELSE "guard"
    /\ UNCHANGED <<file, environ, env_override, pydantic, e, result, calls, prev>>

\* Faulty variant: the None guard logs the error but does not raise.
NoneGuard_continue ==
    /\ pc = "guard"
    /\ pc' = IF env_override THEN "override" ELSE "validate"
    /\ UNCHANGED <<file, environ, env_override, pydantic, config, log, e, raised,
                   result, calls, prev>>

\* lines 36-40: the None guard, then the choice on env_override.
NoneGuard ==
    /\ pc = "guard"
    /\ IF config.none
       THEN /\ raised' = ConfigIsNone
            /\ pc' = "done"
       ELSE /\ raised' = raised
            /\ pc' = IF env_override THEN "override" ELSE "validate"
    /\ UNCHANGED <<file, environ, env_override, pydantic, config, log, e, result, calls, prev>>

\* Faulty variant: the override step also exports every key that has no
\* variable yet (os.environ.setdefault(key.upper(), str(value))).
ApplyEnvironmentOverrides_export ==
    /\ pc = "override"
    /\ log' = Append(log, "override")
    /\ config' = Dict(apply_environment_overrides(config.map, environ))
    /\ environ' = [name \in DOMAIN environ \cup {upper(k) : k \in DOMAIN config.map} |->
                      IF name \in DOMAIN environ THEN environ[name]
                      ELSE PyStr(config.map[CHOOSE k \in DOMAIN config.map : upper(k) = name])]
    /\ pc' = "validate"
    /\ UNCHANGED <<file, env_override, pydantic, e, raised, result, calls, prev>>

\* lines 41-42
ApplyEnvironmentOverrides ==
    /\ pc = "override"
    /\ log' = Append(log, "override")
    /\ config' = Dict(apply_environment_overrides(config.map, environ))
    /\ pc' = "validate"
    /\ UNCHANGED <<file, environ, env_override, pydantic, e, raised, result, calls, prev>>

\* lines 44-49
Validate ==
    /\ pc = "validate"
    /\ log' = Append(log, "validate")
    /\ LET checked == ConfigSchema(config.map, pydantic) IN
         IF checked.errors # {}
         THEN /\ e' = checked.errors
              /\ raised' = InvalidConfiguration
              /\ result' = result
         ELSE /\ e' = e
              /\ raised' = raised
              /\ result' = checked.model
    /\ pc' = "done"
    /\ UNCHANGED <<file, environ, env_override, pydantic, config, calls, prev>>

\* The caller calls load_config again with the same arguments: a new frame.
CallAgain ==
    /\ pc = "done"
    /\ calls + 1 < MaxCalls
    /\ calls' = calls + 1
    /\ prev' = Outcome
    /\ pc' = "call"
    /\ config' = None
    /\ log' = <<>>
    /\ e' = {}
    /\ raised' = NoExc
    /\ result' = EmptyMap
    /\ UNCHANGED <<file, environ, env_override, pydantic>>

Next ==
    \/ LoadConfigFromFile
    \/ NoneGuard
    \/ ApplyEnvironmentOverrides
    \/ Validate
    \/ CallAgain

Spec == Init /\ [][Next]_vars

\* ------------------------------------------------------------------ claims
ENVIRONMENT == <<"E","N","V","I","R","O","N","M","E","N","T">>
DB_URL      == <<"D","B","_","U","R","L">>

\* The environment variable a key is expected to be overridden by, written
\* out name by name.
EnvNameOf(k) ==
    CASE k = app_name    -> APP_NAME
      [] k = environment -> ENVIRONMENT
      [] k = debug       -> DEBUG
      [] k = db_url      -> DB_URL
      [] k = port        -> PORT
      [] OTHER           -> DEBUG

LoadedNonEmpty == file.kind = "object" /\ DOMAIN file.obj # {}
HandedToValidation == pc = "validate" \/ (pc = "done" /\ log # <<>> /\ log[Len(log)] = "validate")
Returned == pc = "done" /\ raised = NoExc
MissingFields == ConfigSchemaFields \ DOMAIN file.obj

\* C1: for every key of the loaded file, the value handed to validation is
\* the string value of the environment variable uppercase(key) when
\* env_override is true and that variable is set (also to ""), and the
\* file's own value otherwise; a returned app_name is then the environment
\* value under env_override, and the file's string without it.
C1_OverridePrecedence ==
    /\ HandedToValidation =>
         \A k \in DOMAIN file.obj :
            config.map[k] = IF env_override /\ EnvNameOf(k) \in DOMAIN environ
                            THEN JStr(environ[EnvNameOf(k)]) ELSE file.obj[k]
    /\ (Returned /\ app_name \in DOMAIN file.obj /\ file.obj[app_name].t = "str") =>
         result[app_name] = IF env_override /\ APP_NAME \in DOMAIN environ
                            THEN JStr(environ[APP_NAME]) ELSE file.obj[app_name]

C1_Witness ==
    /\ Returned /\ env_override
    /\ APP_NAME \in DOMAIN environ /\ environ[APP_NAME] = <<>>
    /\ app_name \in DOMAIN file.obj /\ file.obj[app_name] = JStr(<<"b","a","r">>)
    /\ result[app_name] = JStr(<<>>)

\* C2 (as stated): a non-empty file mapping lacking required keys makes
\* load_config fail with a validation error, surfaced to the caller, that
\* names each missing field.
C2_Original ==
    (pc = "done" /\ LoadedNonEmpty /\ MissingFields # {}) =>
        /\ raised.cls = "ValidationError"
        /\ \A k \in MissingFields : \E err \in raised.errors : err.loc = k

\* C2 (amended): a non-empty file mapping lacking required keys makes
\* load_config fail and return nothing; the ValidationError naming each
\* missing field is caught inside load_config, and what the caller receives
\* is the generic ValueError "Invalid configuration data", which names no
\* field.
C2_MissingFieldRejection ==
    (pc = "done" /\ LoadedNonEmpty /\ MissingFields # {}) =>
        /\ raised = InvalidConfiguration
        /\ raised.errors = {}
        /\ result = EmptyMap
        /\ \A k \in MissingFields : [loc |-> k, type |-> "missing"] \in e

C2_Witness ==
    /\ pc = "done"
    /\ DOMAIN file.obj = {app_name}
    /\ raised = InvalidConfiguration
    /\ {err.loc : err \in e} = {environment, debug, db_url}

\* C3: a file holding the empty object makes load_config fail with the
\* empty-configuration error, whatever env_override and the environment
\* are, and that error differs from the not-found, parse and validation
\* failures.
C3_EmptyRejection ==
    (pc = "done" /\ file.kind = "object" /\ DOMAIN file.obj = {}) =>
        /\ raised = ConfigIsNone
        /\ result = EmptyMap
        /\ raised \notin {NoExc, FileNotFoundError, JSONDecodeError, InvalidConfiguration}

C3_Witness ==
    /\ pc = "done" /\ file.kind = "object" /\ DOMAIN file.obj = {}
    /\ env_override /\ DOMAIN environ # {}
    /\ raised = ConfigIsNone

\* C4: whenever load_config returns, the returned configuration has exactly
\* the four fields, app_name, environment and db_url strings and debug a
\* boolean; no other (partial) result ever exists.
C4_SchemaInvariant ==
    /\ Returned => result # EmptyMap
    /\ result # EmptyMap =>
         /\ DOMAIN result = {app_name, environment, debug, db_url}
         /\ result[app_name].t = "str"
         /\ result[environment].t = "str"
         /\ result[db_url].t = "str"
         /\ result[debug].t = "bool"

C4_Witness ==
    /\ Returned /\ env_override
    /\ debug \in DOMAIN file.obj /\ DEBUG \in DOMAIN environ
    /\ result[debug] = JBool(TRUE)

\* C5: a file with exactly the four fields, correctly typed, loaded with
\* none of APP_NAME, ENVIRONMENT, DEBUG, DB_URL set, succeeds and every
\* field of the result equals the file's value.
C5_RoundTrip ==
    (/\ pc = "done"
     /\ file.kind = "object"
     /\ DOMAIN file.obj = {app_name, environment, debug, db_url}
     /\ file.obj[app_name].t = "str" /\ file.obj[environment].t = "str"
     /\ file.obj[db_url].t = "str" /\ file.obj[debug].t = "bool"
     /\ DOMAIN environ \cap {APP_NAME, ENVIRONMENT, DEBUG, DB_URL} = {})
    => /\ raised = NoExc
       /\ result = file.obj

C5_Witness ==
    /\ Returned /\ env_override
    /\ DOMAIN file.obj = {app_name, environment, debug, db_url}
    /\ file.obj[debug] = JBool(FALSE)
    /\ DOMAIN environ = {debug, PORT}
    /\ result = file.obj

\* C6: a missing path fails with the not-found error and a file that is not
\* JSON fails with the parse error, each under its own kind, never as the
\* other kind, another failure or a result.
C6_FileStageFailures ==
    /\ FileNotFoundError.cls # JSONDecodeError.cls
    /\ pc = "done" =>
         /\ (file.kind = "missing") = (raised = FileNotFoundError)
         /\ (file.kind = "malformed") = (raised = JSONDecodeError)
         /\ file.kind \in {"missing", "malformed"} => result = EmptyMap

C6_Witness ==
    pc = "done" /\ file.kind = "malformed" /\ raised = JSONDecodeError /\ log = <<"load">>

\* C7: the mapping leaving the override step has exactly the keys of the
\* mapping it was given, and a key whose upper-cased name is not a set
\* variable keeps its value, whatever other variables are set.
C7_NoKeyInjection ==
    (~config.none /\ log # <<>> /\ "override" \in {log[i] : i \in DOMAIN log}) =>
        /\ DOMAIN config.map = DOMAIN file.obj
        /\ \A k \in DOMAIN file.obj :
              EnvNameOf(k) \notin DOMAIN environ => config.map[k] = file.obj[k]

C7_Witness ==
    /\ pc = "validate" /\ log = <<"load", "override">>
    /\ DOMAIN environ = {debug, PORT}
    /\ debug \in DOMAIN file.obj /\ port \notin DOMAIN file.obj
    /\ config.map = file.obj

\* C8: if a file mapping loads successfully, the same mapping with further
\* non-schema keys loads successfully too, under the same environment and
\* env_override, with the same four fields.
C8_ExtraKeysIgnored ==
    (pc = "done" /\ file.kind = "object") =>
        \A extra \in SUBSET (DOMAIN file.obj \ ConfigSchemaFields) :
            LET base == [kind |-> "object",
                         obj |-> [k \in DOMAIN file.obj \ extra |-> file.obj[k]]]
                without == load_config(base, environ, env_override, pydantic)
            IN without.raised = NoExc => (raised = NoExc /\ result = without.result)

C8_Witness ==
    /\ Returned /\ env_override
    /\ Debug_ \in DOMAIN file.obj
    /\ DEBUG \in DOMAIN environ

\* C9: a call repeated with the same file, environment and env_override has
\* the same outcome as the call before it, and no step of a call changes
\* the file or the environment.
C9_Determinism ==
    /\ [](pc = "done" /\ calls >= 1 => Outcome = prev)
    /\ [][file' = file /\ environ' = environ]_vars

C9_Witness ==
    pc = "done" /\ calls >= 1 /\ raised = NoExc /\ env_override /\ DOMAIN environ # {}

\* C10: the stages run in the order load, override, validate; the override
\* runs exactly when the load gave a non-empty mapping and env_override is
\* true; validation runs only after such a load; a failed stage ends the
\* call with no later stage and no returned configuration.
C10_PipelineOrder ==
    /\ [](/\ log \in {<<>>, <<"load">>, <<"load", "override">>, <<"load", "validate">>,
                     <<"load", "override", "validate">>}
          /\ \A i \in DOMAIN log : log[i] = "override" => LoadedNonEmpty /\ env_override
          /\ \A i \in DOMAIN log : log[i] = "validate" =>
                /\ LoadedNonEmpty
                /\ env_override => log = <<"load", "override", "validate">>
          /\ raised # NoExc => pc = "done" /\ result = EmptyMap
          /\ pc = "done" => (raised = NoExc) = (result # EmptyMap))
    /\ [][(raised # NoExc /\ calls' = calls) => (log' = log /\ result' = result)]_vars

C10_Witness ==
    /\ pc = "done" /\ log = <<"load", "override", "validate">>
    /\ raised = InvalidConfiguration

====
